---------------------------- MODULE Spec2Model ----------------------------
(***************************************************************************)
(* A model of dimod/generators/mimo.py: the generators of spin-encoded     *)
(* MIMO channel-decoding problems.                                          *)
(*                                                                          *)
(* Numbers.  Every array of the program is modelled with exact integer     *)
(* arithmetic.  A number is a record [re, im] of integers; an array is a    *)
(* record [dtype, val] where dtype is the numpy dtype ("int64", "float64"   *)
(* or "complex128") and val is a sequence of numbers (a vector, or an       *)
(* (n, 1) column) or a sequence of rows (a matrix).  The dtype is kept      *)
(* because the code branches on it.                                         *)
(*                                                                          *)
(* State.  The program is a library of functions; the state of the model   *)
(* is the last call (op, args, ret), the call before it when the two are    *)
(* chained (prev), and the state of numpy's process-wide generator          *)
(* (np_random), which is the only state of the program that outlives a      *)
(* call.                                                                    *)
(***************************************************************************)
EXTENDS Integers, Sequences, FiniteSets, TLC

VARIABLES op, args, ret, prev, np_random

vars == <<op, args, ret, prev, np_random>>

(***************************************************************************)
(* Bounds of the model.                                                     *)
(***************************************************************************)
\* longest vector of symbols given to the codec
MaxSymbols == 2
\* longest enumerated spin vector given to spins_to_symbols
MaxSpinLen == 4
\* largest num_transmitters and num_receivers of a call of spin_encoded_mimo
MaxTx == 2
MaxRx == 2
\* most spins of a model built for transmitted symbols given by the caller
MaxSpins == 8
\* largest integer seed
MaxSeed == 1
\* largest size of the (h, J) given to _real_quadratic_form
MaxFormDim == 2
\* largest number of basestations of a lattice the caller gives as a graph
MaxNodes == 3
\* largest linear scale of a honeycomb lattice
MaxL == 1
\* largest linear scale given to _make_honeycomb itself
MaxScale == 3
\* a generator seeded by the operating system starts in one of the states 0..MaxEntropy
MaxEntropy == 3

(***************************************************************************)
(* Program constants.                                                       *)
(***************************************************************************)
\* "if num_amps > 64" in spins_to_symbols
NumAmpsLimit == 64

(***************************************************************************)
(* Numbers and arrays.                                                      *)
(***************************************************************************)
Cx(r, i) == [re |-> r, im |-> i]

CAdd(a, b) == Cx(a.re + b.re, a.im + b.im)

CMul(a, b) == Cx(a.re * b.re - a.im * b.im, a.re * b.im + a.im * b.re)

CConj(a) == Cx(a.re, 0 - a.im)

CScale(k, a) == Cx(k * a.re, k * a.im)

RECURSIVE Pow2(_)
Pow2(k) == IF k <= 0 THEN 1 ELSE 2 * Pow2(k - 1)

RECURSIVE CSum(_)
CSum(s) == IF Len(s) = 0 THEN Cx(0, 0) ELSE CAdd(Head(s), CSum(Tail(s)))

\* numpy's type promotion among the three dtypes of the program
Promote(a, b) ==
    IF a = "complex128" \/ b = "complex128" THEN "complex128"
    ELSE IF a = "float64" \/ b = "float64" THEN "float64"
    ELSE "int64"

Arr(d, v) == [dtype |-> d, val |-> v]

\* a.real and a.imag of a vector: arrays of the real dtype
RealDtype(d) == IF d = "complex128" THEN "float64" ELSE d

VecReal(a) == Arr(RealDtype(a.dtype), [i \in 1..Len(a.val) |-> Cx(a.val[i].re, 0)])

VecImag(a) == Arr(RealDtype(a.dtype), [i \in 1..Len(a.val) |-> Cx(a.val[i].im, 0)])

Modulations == {"BPSK", "QPSK", "16QAM", "64QAM"}

\* a modulation none of the encoders knows
OtherModulations == {"256QAM"}

(***************************************************************************)
(* Results of a call: a value, or the exception raised.                     *)
(***************************************************************************)
Ok(v) == [err |-> "none", val |-> v]

Raise(e) == [err |-> e, val |-> <<>>]

\* the exception raised by a call that leaves the process-wide generator in state g
RaiseAt(e, g) == [err |-> e, val |-> <<>>, np_random |-> g, locals |-> <<>>]

NoCall == [op |-> "none", args |-> <<>>, ret |-> Raise("none")]

(***************************************************************************)
(* symbols_to_spins                                                         *)
(***************************************************************************)
\* the tuples product(*[(-1, 1) for x in range(spins_per_real_symbol)])
SpinTuples(k) == [1..k -> {-1, 1}]

RECURSIVE WeightedSum(_, _)
\* np.sum([x*2**xI for xI, x in enumerate(spins)]) (xI counts from 0)
WeightedSum(t, k) == IF k = 0 THEN 0 ELSE t[k] * Pow2(k - 1) + WeightedSum(t, k - 1)

\* the keys of the dictionary symb_to_spins
SymbKeys(k) == {WeightedSum(t, k) : t \in SpinTuples(k)}

\* symb_to_spins[symb]
symb_to_spins(k, symb) == CHOOSE t \in SpinTuples(k) : WeightedSum(t, k) = symb

spins_per_real_symbol(modulation) ==
    IF modulation = "16QAM" THEN 2 ELSE IF modulation = "64QAM" THEN 3 ELSE 1

\* the plane of index prec (from 0): the spins of the real parts, then of the imaginary parts
SpinPlane(symbols, k, prec) ==
    [i \in 1..Len(symbols.val) |-> Cx(symb_to_spins(k, symbols.val[i].re)[prec + 1], 0)]
    \o [i \in 1..Len(symbols.val) |-> Cx(symb_to_spins(k, symbols.val[i].im)[prec + 1], 0)]

RECURSIVE ConcatPlanes(_, _, _)
\* np.concatenate([... for prec in range(spins_per_real_symbol)]), from plane prec on
ConcatPlanes(symbols, k, prec) ==
    IF prec >= k THEN <<>>
    ELSE SpinPlane(symbols, k, prec) \o ConcatPlanes(symbols, k, prec + 1)

RECURSIVE ConcatPlanesReversed(_, _, _)
ConcatPlanesReversed(symbols, k, prec) ==
    IF prec >= k THEN <<>>
    ELSE ConcatPlanesReversed(symbols, k, prec + 1) \o SpinPlane(symbols, k, prec)

\* a slip: the planes emitted from the most significant one down
AmplitudeSpinsReversed(symbols, k) == ConcatPlanesReversed(symbols, k, 0)

\* the spins of a 16QAM or 64QAM vector
AmplitudeSpins(symbols, k) == ConcatPlanes(symbols, k, 0)

symbols_to_spins(symbols, modulation) ==
    IF modulation = "BPSK" THEN Ok(symbols)
    ELSE IF modulation = "QPSK"
        THEN Ok(Arr("float64", VecReal(symbols).val \o VecImag(symbols).val))
    ELSE IF modulation \notin {"16QAM", "64QAM"} THEN Raise("ValueError")
    ELSE LET k == spins_per_real_symbol(modulation) IN
        IF \E i \in 1..Len(symbols.val) :
               symbols.val[i].re \notin SymbKeys(k) \/ symbols.val[i].im \notin SymbKeys(k)
        THEN Raise("KeyError")
        ELSE Ok(Arr("int64", AmplitudeSpins(symbols, k)))

(***************************************************************************)
(* spins_to_symbols                                                         *)
(***************************************************************************)
\* an optional argument: None, or the value given
None == <<>>

Some(x) == <<x>>

\* num_transmitters when the caller gives None
DefaultNumTransmitters(num_spins, modulation) ==
    IF modulation = "BPSK" THEN num_spins
    ELSE IF modulation = "QPSK" THEN num_spins \div 2
    ELSE IF modulation = "16QAM" THEN num_spins \div 4
    ELSE num_spins \div 6

\* a slip: the rows weighted from the most significant one down
PlaneWeightReversed(a, num_amps) == Pow2(num_amps - a)

\* amps = 2**np.arange(0, num_amps): the weight of row a (from 1) of spinsR
PlaneWeight(a, num_amps) == Pow2(a - 1)

\* np.sum(amps*spinsR[:, lo+i], axis=0) for column lo+i of the reshaped spins
PlaneSum(spins, num_amps, width, col) ==
    CSum([a \in 1..num_amps |->
            CScale(PlaneWeight(a, num_amps), spins.val[(a - 1) * width + col])])

\* a slip: the check of the remainder left out
DecodeSymbolsNoRemainder(spins, num_transmitters) ==
    LET num_spins == Len(spins.val)
        num_amps == num_spins \div (2 * num_transmitters)
    IN  IF num_amps > NumAmpsLimit THEN Raise("ValueError")
        ELSE Ok(Arr("complex128",
                [i \in 1..num_transmitters |->
                    CAdd(PlaneSum(spins, num_amps, 2 * num_transmitters, i),
                         CMul(Cx(0, 1),
                              PlaneSum(spins, num_amps, 2 * num_transmitters,
                                       num_transmitters + i)))]))

\* the branch of spins_to_symbols taken when num_transmitters != num_spins
DecodeSymbols(spins, num_transmitters) ==
    LET num_spins == Len(spins.val)
        num_amps == num_spins \div (2 * num_transmitters)
        rem == num_spins % (2 * num_transmitters)
    IN  IF num_amps > NumAmpsLimit THEN Raise("ValueError")
        ELSE IF rem # 0 THEN Raise("ValueError")
        ELSE Ok(Arr("complex128",
                [i \in 1..num_transmitters |->
                    CAdd(PlaneSum(spins, num_amps, 2 * num_transmitters, i),
                         CMul(Cx(0, 1),
                              PlaneSum(spins, num_amps, 2 * num_transmitters,
                                       num_transmitters + i)))]))

spins_to_symbols(spins, modulation, num_transmitters) ==
    LET num_spins == Len(spins.val) IN
    IF num_transmitters = None /\ modulation \notin Modulations THEN Raise("ValueError")
    ELSE LET nt == IF num_transmitters = None
                   THEN DefaultNumTransmitters(num_spins, modulation)
                   ELSE num_transmitters[1]
         IN  IF nt = num_spins THEN Ok(spins)
             ELSE IF nt = 0 THEN Raise("ZeroDivisionError")
             ELSE DecodeSymbols(spins, nt)

(***************************************************************************)
(* Matrices.  A matrix array holds a sequence of rows; a column vector      *)
(* ((n, 1) array) holds the sequence of its n entries.                      *)
(***************************************************************************)
NumRows(M) == Len(M.val)

NumCols(M) == IF Len(M.val) = 0 THEN 0 ELSE Len(M.val[1])

\* np.matmul(F, v) for a matrix and a column of matching length
MatVec(F, v) ==
    Arr(Promote(F.dtype, v.dtype),
        [i \in 1..NumRows(F) |->
            CSum([j \in 1..NumCols(F) |-> CMul(F.val[i][j], v.val[j])])])

\* np.matmul(F.T.conj(), y) for a matrix and a column of matching length
ConjTVec(F, y) ==
    Arr(Promote(F.dtype, y.dtype),
        [j \in 1..NumCols(F) |->
            CSum([i \in 1..NumRows(F) |-> CMul(CConj(F.val[i][j]), y.val[i])])])

\* np.matmul(F.T.conj(), F)
Gram(F) ==
    Arr(F.dtype,
        [j \in 1..NumCols(F) |-> [k \in 1..NumCols(F) |->
            CSum([i \in 1..NumRows(F) |-> CMul(CConj(F.val[i][j]), F.val[i][k])])]])

\* a + b for two columns of the same length
VecAdd(a, b) ==
    Arr(Promote(a.dtype, b.dtype), [i \in 1..Len(a.val) |-> CAdd(a.val[i], b.val[i])])

(***************************************************************************)
(* _quadratic_form, _real_quadratic_form,                                   *)
(* _amplitude_modulated_quadratic_form, _yF_to_hJ                           *)
(***************************************************************************)
\* np.matmul(y.imag.T, y.imag) + np.matmul(y.real.T, y.real)
QuadraticOffset(y) ==
    CSum([i \in 1..Len(y.val) |-> Cx(y.val[i].im * y.val[i].im + y.val[i].re * y.val[i].re, 0)]).re

\* k*v for a column v
ScaleVec(k, v) == Arr(v.dtype, [j \in 1..Len(v.val) |-> CScale(k, v.val[j])])

\* a slip: the sign of the linear term lost
LinearTermUnsigned(y, F) == ScaleVec(2, ConjTVec(F, y))

\* h = - 2*np.matmul(F.T.conj(), y)
LinearTerm(y, F) == ScaleVec(-2, ConjTVec(F, y))

_quadratic_form(y, F) ==
    IF NumRows(F) # Len(y.val) THEN Raise("ValueError")
    ELSE Ok([offset |-> QuadraticOffset(y), h |-> LinearTerm(y, F), J |-> Gram(F)])

\* np.concatenate((h.real, h.imag), axis=0)
StackedVector(h) == Arr(RealDtype(h.dtype), VecReal(h).val \o VecImag(h).val)

\* a slip: the off-diagonal blocks exchanged, J.imag above J.imag.T
BlockMatrixSwapped(J) ==
    LET n == NumRows(J)
    IN  Arr(RealDtype(J.dtype),
            [i \in 1..(2 * n) |-> [j \in 1..(2 * n) |->
                IF i <= n /\ j <= n THEN Cx(J.val[i][j].re, 0)
                ELSE IF i > n /\ j <= n THEN Cx(J.val[j][i - n].im, 0)
                ELSE IF i <= n /\ j > n THEN Cx(J.val[i][j - n].im, 0)
                ELSE Cx(J.val[i - n][j - n].re, 0)]])

\* np.concatenate((np.concatenate((J.real, J.imag), axis=0),
\*                 np.concatenate((J.imag.T, J.real), axis=0)), axis=1):
\* the first n columns hold J.real above J.imag, the last n hold J.imag.T above J.real
BlockMatrix(J) ==
    LET n == NumRows(J)
    IN  Arr(RealDtype(J.dtype),
            [i \in 1..(2 * n) |-> [j \in 1..(2 * n) |->
                IF i <= n /\ j <= n THEN Cx(J.val[i][j].re, 0)
                ELSE IF i > n /\ j <= n THEN Cx(J.val[i - n][j].im, 0)
                ELSE IF i <= n /\ j > n THEN Cx(J.val[j - n][i].im, 0)
                ELSE Cx(J.val[i - n][j - n].re, 0)]])

\* J.real of a matrix
MatReal(J) ==
    Arr(RealDtype(J.dtype),
        [i \in 1..NumRows(J) |-> [j \in 1..NumCols(J) |-> Cx(J.val[i][j].re, 0)]])

_real_quadratic_form(h, J, modulation) ==
    IF modulation # "BPSK" /\ (h.dtype = "complex128" \/ J.dtype = "complex128")
    THEN [h |-> StackedVector(h), J |-> BlockMatrix(J)]
    ELSE [h |-> VecReal(h), J |-> MatReal(J)]

\* num_amps of _amplitude_modulated_quadratic_form
num_amps(modulation) == IF modulation = "16QAM" THEN 2 ELSE 3

\* np.kron(amps[:, np.newaxis], h) with amps = 2**np.arange(num_amps)
KronVector(k, h) ==
    LET n == Len(h.val)
    IN  Arr(h.dtype,
            [r \in 1..(k * n) |->
                CScale(Pow2((r - 1) \div n), h.val[((r - 1) % n) + 1])])

\* np.kron(np.kron(amps[:, np.newaxis], amps[np.newaxis, :]), J)
KronMatrix(k, J) ==
    LET n == NumRows(J)
    IN  Arr(J.dtype,
            [r \in 1..(k * n) |-> [c \in 1..(k * n) |->
                CScale(Pow2((r - 1) \div n) * Pow2((c - 1) \div n),
                       J.val[((r - 1) % n) + 1][((c - 1) % n) + 1])]])

_amplitude_modulated_quadratic_form(h, J, modulation) ==
    IF modulation = "BPSK" \/ modulation = "QPSK" THEN Ok([h |-> h, J |-> J])
    ELSE IF modulation \notin {"16QAM", "64QAM"} THEN Raise("ValueError")
    ELSE Ok([h |-> KronVector(num_amps(modulation), h),
             J |-> KronMatrix(num_amps(modulation), J)])

\* h, J = _real_quadratic_form(h, J, modulation) for the result q of _quadratic_form
RealForm(q, modulation) == _real_quadratic_form(q.val.h, q.val.J, modulation)

\* h, J = _amplitude_modulated_quadratic_form(h, J, modulation)
AmplitudeForm(r, modulation) == _amplitude_modulated_quadratic_form(r.h, r.J, modulation)

\* return h, J, offset
FormWithOffset(a, offset) ==
    IF a.err # "none" THEN a
    ELSE Ok([h |-> a.val.h, J |-> a.val.J, offset |-> offset])

\* _yF_to_hJ after its call of _quadratic_form, which returned q
FormOfQuadratic(q, modulation) ==
    IF q.err # "none" THEN q
    ELSE FormWithOffset(AmplitudeForm(RealForm(q, modulation), modulation),
                        q.val.offset)

_yF_to_hJ(y, F, modulation) == FormOfQuadratic(_quadratic_form(y, F), modulation)

(***************************************************************************)
(* The quadratic model (dimod.BinaryQuadraticModel), as the generators use  *)
(* it: built from a vector of linear biases, a dense matrix of quadratic    *)
(* biases, the SPIN domain and an offset, over the variables 0..n-1.        *)
(***************************************************************************)
\* a slip: the entries above the diagonal zeroed with it
ZeroDiagonalAndAbove(J) ==
    Arr(J.dtype,
        [i \in 1..NumRows(J) |-> [j \in 1..NumCols(J) |->
            IF i <= j THEN Cx(0, 0) ELSE J.val[i][j]]])

\* np.fill_diagonal(J, 0)
ZeroDiagonal(J) ==
    Arr(J.dtype,
        [i \in 1..NumRows(J) |-> [j \in 1..NumCols(J) |->
            IF i = j THEN Cx(0, 0) ELSE J.val[i][j]]])

\* dimod.BQM(h[:,0], J, 'SPIN', offset=offset)
BQM(h, J, offset) ==
    [linear |-> [i \in 1..Len(h.val) |-> h.val[i].re],
     quadratic |-> [i \in 1..NumRows(J) |-> [j \in 1..NumCols(J) |-> J.val[i][j].re]],
     offset |-> offset,
     vartype |-> "SPIN"]

\* the number of variables of a model
NumVariables(bqm) == Len(bqm.linear)

RECURSIVE SeqSum(_)
SeqSum(s) == IF Len(s) = 0 THEN 0 ELSE Head(s) + SeqSum(Tail(s))

\* the energy of the model built from dense (h, J, offset) at the spins s:
\* sum_i h_i s_i + sum_{i,j} J_ij s_i s_j + offset
Energy(bqm, s) ==
    LET n == NumVariables(bqm)
    IN  SeqSum([i \in 1..n |-> bqm.linear[i] * s[i]])
        + SeqSum([i \in 1..n |-> SeqSum([j \in 1..n |-> bqm.quadratic[i][j] * s[i] * s[j]])])
        + bqm.offset

(***************************************************************************)
(* constellation_properties                                                 *)
(***************************************************************************)
\* amps: np.ones(1) for BPSK and QPSK, 1+2*np.arange(n) for the QAM modulations
Amps(modulation) ==
    IF modulation \in {"BPSK", "QPSK"} THEN Arr("float64", <<Cx(1, 0)>>)
    ELSE IF modulation = "16QAM" THEN Arr("int64", [i \in 1..2 |-> Cx(2 * i - 1, 0)])
    ELSE IF modulation = "64QAM" THEN Arr("int64", [i \in 1..4 |-> Cx(2 * i - 1, 0)])
    ELSE Arr("int64", [i \in 1..8 |-> Cx(2 * i - 1, 0)])

bits_per_transmitter(modulation) ==
    IF modulation = "BPSK" THEN 1
    ELSE IF modulation = "QPSK" THEN 2
    ELSE IF modulation = "16QAM" THEN 4
    ELSE IF modulation = "64QAM" THEN 6
    ELSE 8

\* 2*np.mean(amps*amps), and 1 for BPSK: 2, 10, 42 and 170 are exact
constellation_mean_power(modulation) ==
    IF modulation = "BPSK" THEN 1
    ELSE LET a == Amps(modulation).val
         IN  (2 * CSum([i \in 1..Len(a) |-> CMul(a[i], a[i])]).re) \div Len(a)

constellation_properties(modulation) ==
    IF modulation \notin Modulations \cup {"256QAM"} THEN Raise("ValueError")
    ELSE Ok([bits_per_transmitter |-> bits_per_transmitter(modulation),
             amps |-> Amps(modulation),
             constellation_mean_power |-> constellation_mean_power(modulation)])

(***************************************************************************)
(* Random sources.  numpy's generators are modelled by a generator of       *)
(* period 16: a RandomState is its state, a draw advances the state and     *)
(* yields a value that is a function of the new state.  Normal draws are    *)
(* modelled by integers of -2..2, so that the arithmetic stays exact.       *)
(***************************************************************************)
RngStates == 0..15

\* the state after one draw
RngNext(s) == (5 * s + 3) % 16

RECURSIVE RngSkip(_, _)
\* the state after n draws
RngSkip(s, n) == IF n = 0 THEN s ELSE RngSkip(RngNext(s), n - 1)

\* np.random.RandomState(seed) for an integer seed
SeededState(seed) == seed % 16

\* the k-th value of random_state.normal(0, 1, size=...) drawn from state s
NormalValue(s, k) == (RngSkip(s, k) % 5) - 2

\* the k-th value of 1-2*random_state.randint(2, size=...) drawn from state s
BinaryValue(s, k) == 1 - 2 * ((RngSkip(s, k) \div 4) % 2)

\* the k-th value of np.random.choice(amps, size=...) drawn from state s
ChoiceValue(amps, s, k) == amps.val[((RngSkip(s, k) \div 2) % Len(amps.val)) + 1]

\* a random_state argument: None, an integer seed, or a RandomState
IntSeed(k) == <<"int", k>>

RandomState(s) == <<"RandomState", s>>

IsRandomState(r) == r # None /\ r[1] = "RandomState"

(***************************************************************************)
(* create_channel                                                           *)
(***************************************************************************)
\* random_state.normal(0, 1, size=(num_receivers, num_transmitters)), in row-major
\* order, the k0 first draws of the state skipped
NormalMatrix(s, k0, num_receivers, num_transmitters) ==
    [i \in 1..num_receivers |-> [j \in 1..num_transmitters |->
        NormalValue(s, k0 + (i - 1) * num_transmitters + j)]]

\* 1-2*random_state.randint(2, size=(num_receivers, num_transmitters))
BinaryMatrix(s, k0, num_receivers, num_transmitters) ==
    [i \in 1..num_receivers |-> [j \in 1..num_transmitters |->
        BinaryValue(s, k0 + (i - 1) * num_transmitters + j)]]

\* A + 1j*B for two real matrices of integers
ComplexMatrix(A, B) ==
    [i \in 1..Len(A) |-> [j \in 1..Len(A[i]) |-> Cx(A[i][j], B[i][j])]]

\* F_distribution = ('Normal', 'Complex') when None is given
DefaultDistribution == <<"Normal", "Complex">>

\* random_state is a RandomState state here: spin_encoded_mimo always makes one
create_channel(num_receivers, num_transmitters, F_distribution, random_state) ==
    LET dist == IF F_distribution = None THEN DefaultDistribution ELSE F_distribution
        size == num_receivers * num_transmitters
        zero == [i \in 1..num_receivers |-> [j \in 1..num_transmitters |-> 0]]
        N1 == NormalMatrix(random_state, 0, num_receivers, num_transmitters)
        N2 == NormalMatrix(random_state, size, num_receivers, num_transmitters)
        B1 == BinaryMatrix(random_state, 0, num_receivers, num_transmitters)
        B2 == BinaryMatrix(random_state, size, num_receivers, num_transmitters)
    IN  IF Len(dist) # 2 THEN Raise("ValueError")
        ELSE IF dist[1] = "Normal" /\ dist[2] = "Real"
            THEN Ok([F |-> Arr("float64", ComplexMatrix(N1, zero)),
                     channel_power |-> 1 * num_transmitters,
                     random_state |-> RngSkip(random_state, size)])
        ELSE IF dist[1] = "Normal"
            THEN Ok([F |-> Arr("complex128", ComplexMatrix(N1, N2)),
                     channel_power |-> 2 * num_transmitters,
                     random_state |-> RngSkip(random_state, 2 * size)])
        ELSE IF dist[1] = "Binary" /\ dist[2] = "Real"
            THEN Ok([F |-> Arr("int64", ComplexMatrix(B1, zero)),
                     channel_power |-> 1 * num_transmitters,
                     random_state |-> RngSkip(random_state, size)])
        ELSE IF dist[1] = "Binary"
            THEN Ok([F |-> Arr("complex128", ComplexMatrix(B1, B2)),
                     channel_power |-> 2 * num_transmitters,
                     random_state |-> RngSkip(random_state, 2 * size)])
        ELSE Raise("UnboundLocalError")

(***************************************************************************)
(* create_transmitted_symbols: the draws come from numpy's process-wide     *)
(* generator (np.random.choice), whose state is g.                          *)
(***************************************************************************)
create_transmitted_symbols(num_transmitters, amps, quadrature, g) ==
    IF ~quadrature
    THEN [transmitted_symbols |->
              Arr(amps.dtype, [i \in 1..num_transmitters |-> ChoiceValue(amps, g, i)]),
          np_random |-> RngSkip(g, num_transmitters)]
    ELSE [transmitted_symbols |->
              Arr("complex128",
                  [i \in 1..num_transmitters |->
                      Cx(ChoiceValue(amps, g, i).re,
                         ChoiceValue(amps, g, num_transmitters + i).re)]),
          np_random |-> RngSkip(g, 2 * num_transmitters)]

(***************************************************************************)
(* create_signal                                                            *)
(***************************************************************************)
\* SNRb, a positive ratio num/den, or float('Inf')
Inf == [num |-> 1, den |-> 0]

IsInf(SNRb) == SNRb.den = 0

\* sigma = np.sqrt(N0/2) with N0 = Eb/SNRb and
\* Eb = channel_power*constellation_mean_power/bits_per_transmitter; the model is
\* given the values of SNRb for which sigma is an integer
Sigma(SNRb, channel_power, modulation) ==
    LET num == channel_power * constellation_mean_power(modulation) * SNRb.den
        den == 2 * bits_per_transmitter(modulation) * SNRb.num
    IN  CHOOSE r \in 0..num : r * r * den = num

\* the SNRb that gives sigma its value
SNRbOfSigma(sigma, channel_power, modulation) ==
    [num |-> channel_power * constellation_mean_power(modulation),
     den |-> 2 * bits_per_transmitter(modulation) * sigma * sigma]

\* sigma*random_state.normal(...), real or complex, drawn from the state s
DrawnNoise(sigma, s, num_receivers, complex) ==
    IF ~complex
    THEN Arr("float64", [i \in 1..num_receivers |-> Cx(sigma * NormalValue(s, i), 0)])
    ELSE Arr("complex128",
             [i \in 1..num_receivers |->
                 Cx(sigma * NormalValue(s, i), sigma * NormalValue(s, num_receivers + i))])

\* the transmitted symbols of create_signal, given or drawn (lines 301-307), with the
\* states in which this leaves the process-wide generator and random_state
DrawnSymbols(draw, random_state) ==
    [transmitted_symbols |-> draw.transmitted_symbols, np_random |-> draw.np_random,
     random_state |-> random_state]

SignalSymbols(F, transmitted_symbols, modulation, random_state, g, entropy) ==
    IF transmitted_symbols = None
    THEN DrawnSymbols(create_transmitted_symbols(NumCols(F), Amps(modulation),
                                                 modulation # "BPSK", g),
                      IF random_state = None THEN RandomState(entropy)
                      ELSE random_state)
    ELSE [transmitted_symbols |-> transmitted_symbols[1], np_random |-> g,
          random_state |-> random_state]

\* the noise is complex unless the symbols and the channel are float64
ComplexNoise(F, symbols) == ~(symbols.dtype = "float64" /\ F.dtype = "float64")

\* the random_state the noise is drawn from (lines 319-320)
NoiseState(random_state, entropy) ==
    IF random_state = None THEN RandomState(entropy) ELSE random_state

\* the channel noise drawn from the RandomState rs (lines 323-328), and the state
\* in which this leaves rs
NoiseDrawn(sigma, rs, num_receivers, complex) ==
    [channel_noise |-> DrawnNoise(sigma, rs[2], num_receivers, complex),
     random_state |->
         RandomState(RngSkip(rs[2], IF complex THEN 2 * num_receivers
                                    ELSE num_receivers))]

\* the channel noise of create_signal, given or drawn
SignalNoise(F, s, channel_noise, sigma, entropy) ==
    IF channel_noise # None
    THEN [channel_noise |-> channel_noise[1], random_state |-> s.random_state]
    ELSE NoiseDrawn(sigma, NoiseState(s.random_state, entropy), NumRows(F),
                    ComplexNoise(F, s.transmitted_symbols))

\* y = channel_noise + np.matmul(F, transmitted_symbols), and the return
NoisySignal(F, s, n) ==
    [err |-> "none", np_random |-> s.np_random,
     val |-> [y |-> VecAdd(n.channel_noise, MatVec(F, s.transmitted_symbols)),
              transmitted_symbols |-> s.transmitted_symbols,
              channel_noise |-> Some(n.channel_noise),
              random_state |-> n.random_state]]

\* create_signal from line 308 on; s holds the transmitted symbols
SignalOfSymbols(F, s, channel_noise, SNRb, modulation, channel_power, entropy) ==
    IF ~IsInf(SNRb) /\ SNRb.num <= 0 THEN RaiseAt("ValueError", s.np_random)
    ELSE IF /\ ~IsInf(SNRb)
            /\ channel_noise = None
            /\ ~IsRandomState(NoiseState(s.random_state, entropy))
        THEN RaiseAt("AttributeError", s.np_random)
    ELSE IF Len(s.transmitted_symbols.val) # NumCols(F)
        THEN RaiseAt("ValueError", s.np_random)
    ELSE IF ~IsInf(SNRb)
        THEN NoisySignal(F, s, SignalNoise(F, s, channel_noise,
                                           Sigma(SNRb, channel_power, modulation),
                                           entropy))
    ELSE [err |-> "none", np_random |-> s.np_random,
          val |-> [y |-> MatVec(F, s.transmitted_symbols),
                   transmitted_symbols |-> s.transmitted_symbols,
                   channel_noise |-> channel_noise,
                   random_state |-> s.random_state]]

\* g is the state of the process-wide generator, entropy the state that a
\* RandomState made without a seed takes from the operating system
create_signal(F, transmitted_symbols, channel_noise, SNRb, modulation, channel_power, random_state, g, entropy) ==
    IF constellation_properties(modulation).err # "none" THEN RaiseAt("ValueError", g)
    ELSE SignalOfSymbols(F,
             SignalSymbols(F, transmitted_symbols, modulation, random_state, g, entropy),
             channel_noise, SNRb, modulation,
             IF channel_power = None THEN NumCols(F) ELSE channel_power[1], entropy)

(***************************************************************************)
(* spin_encoded_mimo.  a is the record of its arguments.  The result holds  *)
(* the model returned (val), the state in which the call leaves the         *)
(* process-wide generator (np_random) and the values of the local variables *)
(* of the call when it returns (locals).                                    *)
(***************************************************************************)
\* num_transmitters, given or inferred; 0 when it cannot be inferred
InferredTransmitters(a) ==
    IF a.num_transmitters # None THEN a.num_transmitters[1]
    ELSE IF a.F # None THEN NumCols(a.F[1])
    ELSE IF a.transmitted_symbols # None THEN Len(a.transmitted_symbols[1].val)
    ELSE 0

CanInferTransmitters(a) ==
    a.num_transmitters # None \/ a.F # None \/ a.transmitted_symbols # None

\* num_receivers, given or inferred; 0 when it cannot be inferred
InferredReceivers(a) ==
    IF a.num_receivers # None THEN a.num_receivers[1]
    ELSE IF a.F # None THEN NumRows(a.F[1])
    ELSE IF a.y # None THEN Len(a.y[1].val)
    ELSE IF a.channel_noise # None THEN Len(a.channel_noise[1].val)
    ELSE 0

CanInferReceivers(a) ==
    a.num_receivers # None \/ a.F # None \/ a.y # None \/ a.channel_noise # None

\* the model built from h, J and offset, with or without the offset
BuiltModel(hJ, use_offset) ==
    IF use_offset THEN BQM(hJ.h, hJ.J, hJ.offset)
    ELSE BQM(hJ.h, ZeroDiagonal(hJ.J), 0)

\* F and channel_power when F is given (lines 476-477); seed is left as it is
GivenChannel(a) ==
    [err |-> "none", F |-> a.F[1], channel_power |-> InferredTransmitters(a),
     random_state |-> IF a.seed = None THEN None ELSE IntSeed(a.seed[1])]

\* F and channel_power when create_channel has returned ch (lines 472-474); seed is
\* the RandomState made of it
GeneratedChannel(ch) ==
    IF ch.err # "none"
    THEN [err |-> ch.err, F |-> <<>>, channel_power |-> 0, random_state |-> None]
    ELSE [err |-> "none", F |-> ch.val.F, channel_power |-> ch.val.channel_power,
          random_state |-> RandomState(ch.val.random_state)]

\* lines 471-477
MimoChannel(a, entropy) ==
    IF a.F # None THEN GivenChannel(a)
    ELSE GeneratedChannel(
             create_channel(InferredReceivers(a), InferredTransmitters(a),
                            a.F_distribution,
                            IF a.seed = None THEN entropy ELSE SeededState(a.seed[1])))

\* lines 484-490: the model of the form hJ of the signal y, for the channel c
MimoModel(a, c, y, g, transmitted_symbols, hJ) ==
    IF hJ.err # "none" THEN RaiseAt(hJ.err, g)
    ELSE [err |-> "none", np_random |-> g,
          val |-> BuiltModel(hJ.val, a.use_offset),
          locals |-> [num_transmitters |-> InferredTransmitters(a),
                      num_receivers |-> InferredReceivers(a),
                      F |-> c.F, channel_power |-> c.channel_power, y |-> y,
                      drawn |-> a.y = None /\ a.transmitted_symbols = None,
                      amps |-> Amps(a.modulation),
                      transmitted_symbols |-> transmitted_symbols]]

\* lines 479-490 when y is absent and create_signal has returned sig
MimoOfSignal(a, c, sig) ==
    IF sig.err # "none" THEN RaiseAt(sig.err, sig.np_random)
    ELSE MimoModel(a, c, sig.val.y, sig.np_random, Some(sig.val.transmitted_symbols),
                   _yF_to_hJ(sig.val.y, c.F, a.modulation))

\* lines 479-490 for the channel c
MimoOfChannel(a, c, g, entropy) ==
    IF c.err # "none" THEN RaiseAt(c.err, g)
    ELSE IF a.y # None
        THEN MimoModel(a, c, a.y[1], g, a.transmitted_symbols,
                       _yF_to_hJ(a.y[1], c.F, a.modulation))
    ELSE MimoOfSignal(a, c,
             create_signal(c.F, a.transmitted_symbols, a.channel_noise, a.SNRb,
                           a.modulation, Some(c.channel_power), c.random_state,
                           g, entropy))

spin_encoded_mimo(a, g, entropy) ==
    IF ~CanInferTransmitters(a) \/ ~CanInferReceivers(a) THEN RaiseAt("ValueError", g)
    ELSE IF InferredTransmitters(a) <= 0 \/ InferredReceivers(a) <= 0
        THEN RaiseAt("AssertionError", g)
    ELSE MimoOfChannel(a, MimoChannel(a, entropy), g, entropy)

(***************************************************************************)
(* The basestation lattice (networkx.Graph, as the generators use it): the  *)
(* nodes in the order of their insertion, and for each node its neighbours  *)
(* in the order of their insertion.                                         *)
(***************************************************************************)
\* nx.Graph()
EmptyGraph == [nodes |-> <<>>, adj |-> <<>>]

NodeSet(G) == {G.nodes[k] : k \in 1..Len(G.nodes)}

Contains(s, x) == \E k \in 1..Len(s) : s[k] = x

add_node(G, n) ==
    IF Contains(G.nodes, n) THEN G
    ELSE [nodes |-> Append(G.nodes, n), adj |-> (n :> <<>>) @@ G.adj]

\* adj[u][v] = dd, then adj[v][u] = dd, both end points added when absent
add_edge(G, e) ==
    [nodes |-> add_node(add_node(G, e[1]), e[2]).nodes,
     adj |-> [add_node(add_node(G, e[1]), e[2]).adj EXCEPT
                ![e[1]] = IF Contains(@, e[2]) THEN @ ELSE Append(@, e[2]),
                ![e[2]] = IF Contains(@, e[1]) THEN @ ELSE Append(@, e[1])]]

\* the edges are added to G one at a time; reading G in the test makes each update
\* happen before the next edge is taken
RECURSIVE add_edges_from(_, _)
add_edges_from(G, edges) ==
    IF Len(G.nodes) >= 0 /\ Len(edges) = 0 THEN G
    ELSE add_edges_from(add_edge(G, Head(edges)), Tail(edges))

remove_node(G, n) ==
    LET Other(m) == m # n
    IN  [nodes |-> SelectSeq(G.nodes, Other),
         adj |-> [m \in NodeSet(G) \ {n} |-> SelectSeq(G.adj[m], Other)]]

RECURSIVE remove_nodes_from(_, _)
remove_nodes_from(G, ns) ==
    IF Len(ns) = 0 THEN G
    ELSE remove_nodes_from(remove_node(G, Head(ns)), Tail(ns))

degree(G, bs) == Len(G.adj[bs])

neighbors(G, bs) == G.adj[bs]

\* [((x, y), (x + dx, y + dy)) for x in range(nx) for y in range(ny)]
GridEdges(nx, ny, dx, dy) ==
    [k \in 1..(nx * ny) |->
        <<<<(k - 1) \div ny, (k - 1) % ny>>,
          <<((k - 1) \div ny) + dx, ((k - 1) % ny) + dy>>>>]

\* [(i, j) for j in range(L) for i in range(L+1+j, 2*L+1)]: the j-th row cuts
\* L - j nodes
RECURSIVE CutCornerShort(_, _)
\* a slip: range(L+2+j, 2*L+1), the first node of each cut row kept
CutCornerShort(L, j) ==
    IF j >= L THEN <<>>
    ELSE [k \in 1..(L - j - 1) |-> <<L + j + 1 + k, j>>] \o CutCornerShort(L, j + 1)

RECURSIVE CutCorner(_, _)
CutCorner(L, j) ==
    IF j >= L THEN <<>>
    ELSE [k \in 1..(L - j) |-> <<L + j + k, j>>] \o CutCorner(L, j + 1)

Transposed(ns) == [k \in 1..Len(ns) |-> <<ns[k][2], ns[k][1]>>]

_make_honeycomb(L) ==
    LET G1 == add_edges_from(EmptyGraph, GridEdges(2 * L + 1, 2 * L, 0, 1))
        G2 == add_edges_from(G1, GridEdges(2 * L, 2 * L + 1, 1, 0))
        G3 == add_edges_from(G2, GridEdges(2 * L, 2 * L, 1, 1))
        G4 == remove_nodes_from(G3, CutCorner(L, 0))
    IN  remove_nodes_from(G4, Transposed(CutCorner(L, 0)))

(***************************************************************************)
(* The joint model (dimod.BinaryQuadraticModel with labelled variables):    *)
(* the set of its variables, their linear biases, the quadratic bias of     *)
(* each ordered pair of variables, and the offset.  A variable is a label   *)
(* <<bs, i>>, or <<idx>> for the integer idx.                               *)
(***************************************************************************)
\* dimod.BinaryQuadraticModel('SPIN')
EmptyModel ==
    [variables |-> {}, linear |-> <<>>, quadratic |-> <<>>, offset |-> 0,
     vartype |-> "SPIN"]

\* the label of the variable idx after relabel_variables({idx: l for idx, l in
\* enumerate(labels)}): a variable the mapping does not name keeps its label
LabelOf(labels, idx) == IF idx < Len(labels) THEN labels[idx + 1] ELSE <<idx>>

\* bqm.relabel_variables(mapping), of a model over the variables 0..n-1
relabel_variables(bqm, labels) ==
    LET n == NumVariables(bqm)
        variables == {LabelOf(labels, idx) : idx \in 0..(n - 1)}
        Index(v) == CHOOSE k \in 1..n : LabelOf(labels, k - 1) = v
    IN  [variables |-> variables,
         linear |-> [v \in variables |-> bqm.linear[Index(v)]],
         quadratic |-> [p \in variables \X variables |->
                            bqm.quadratic[Index(p[1])][Index(p[2])]],
         offset |-> bqm.offset,
         vartype |-> bqm.vartype]

\* bqm + other: the variables are merged by identity, the coefficients added
AddModels(bqm, other) ==
    LET variables == bqm.variables \cup other.variables
        Linear(m, v) == IF v \in m.variables THEN m.linear[v] ELSE 0
        Quadratic(m, p) ==
            IF p[1] \in m.variables /\ p[2] \in m.variables THEN m.quadratic[p] ELSE 0
    IN  [variables |-> variables,
         linear |-> [v \in variables |-> Linear(bqm, v) + Linear(other, v)],
         quadratic |-> [p \in variables \X variables |->
                            Quadratic(bqm, p) + Quadratic(other, p)],
         offset |-> bqm.offset + other.offset,
         vartype |-> bqm.vartype]

(***************************************************************************)
(* spin_encoded_comp.  a is the record of its arguments, g the state of the *)
(* process-wide generator, entropy[k] the state the operating system gives  *)
(* to a generator made without a seed for the k-th node.  The result holds  *)
(* the joint model (val), the state in which the call leaves the            *)
(* process-wide generator and, in locals, the lattice and the result of     *)
(* spin_encoded_mimo for each node, in the order of the loop.               *)
(***************************************************************************)
IntLattice(L) == <<"int", L>>

GraphLattice(G) == <<"Graph", G>>

\* the arguments of the call of spin_encoded_mimo for the node bs
CellArgs(a, lattice, num_transmitters, num_receivers, bs) ==
    [modulation |-> a.modulation,
     y |-> IF a.ys = None THEN None ELSE a.ys[1][bs],
     F |-> IF a.Fs = None THEN None ELSE a.Fs[1][bs],
     transmitted_symbols |-> a.transmitted_symbols,
     channel_noise |-> a.channel_noise,
     num_transmitters |-> Some(num_transmitters * (1 + degree(lattice, bs))),
     num_receivers |-> Some(num_receivers),
     SNRb |-> a.SNRb, seed |-> a.seed, F_distribution |-> a.F_distribution,
     use_offset |-> a.use_offset]

\* the results of spin_encoded_mimo for the nodes k, k+1, ... of the loop, which
\* ends at the first call that raises; r is the result for the node k
RECURSIVE CellResults(_, _, _, _, _, _, _)
RECURSIVE CellResultsFrom(_, _, _, _, _, _, _)
CellResultsFrom(a, lattice, num_transmitters, num_receivers, k, r, entropy) ==
    IF r.err # "none" THEN <<r>>
    ELSE <<r>> \o CellResults(a, lattice, num_transmitters, num_receivers,
                              k + 1, r.np_random, entropy)

CellResults(a, lattice, num_transmitters, num_receivers, k, g, entropy) ==
    IF k > Len(lattice.nodes) THEN <<>>
    ELSE CellResultsFrom(a, lattice, num_transmitters, num_receivers, k,
             spin_encoded_mimo(CellArgs(a, lattice, num_transmitters, num_receivers,
                                        lattice.nodes[k]), g, entropy[k]),
             entropy)

\* a slip: the labels of the neighbours come first, those of bs last
geometric_labels_own_last(lattice, bs, num_transmitters) ==
    [k \in 1..(num_transmitters * (1 + degree(lattice, bs))) |->
        LET q == (k - 1) \div num_transmitters
            i == (k - 1) % num_transmitters
        IN  <<IF q = degree(lattice, bs) THEN bs ELSE neighbors(lattice, bs)[q + 1], i>>]

\* [(bs,i) for i in range(num_transmitters)] + [(neigh,i) for neigh in
\* lattice.neighbors(bs) for i in range(num_transmitters)]
geometric_labels(lattice, bs, num_transmitters) ==
    [k \in 1..(num_transmitters * (1 + degree(lattice, bs))) |->
        LET q == (k - 1) \div num_transmitters
            i == (k - 1) % num_transmitters
        IN  <<IF q = 0 THEN bs ELSE neighbors(lattice, bs)[q], i>>]

\* bqm after the first k nodes of the loop
RECURSIVE JointModel(_, _, _, _)
JointModel(lattice, num_transmitters, cells, k) ==
    IF k = 0 THEN EmptyModel
    ELSE AddModels(JointModel(lattice, num_transmitters, cells, k - 1),
                   relabel_variables(cells[k].val,
                       geometric_labels(lattice, lattice.nodes[k], num_transmitters)))

\* the return of spin_encoded_comp, cells the results of the loop
CompOfCells(lattice, num_transmitters, g, cells) ==
    IF Len(cells) > 0 /\ cells[Len(cells)].err # "none"
    THEN RaiseAt(cells[Len(cells)].err, cells[Len(cells)].np_random)
    ELSE [err |-> "none",
          np_random |-> IF Len(cells) = 0 THEN g ELSE cells[Len(cells)].np_random,
          val |-> JointModel(lattice, num_transmitters, cells, Len(cells)),
          locals |-> [lattice |-> lattice, num_transmitters |-> num_transmitters,
                      cells |-> cells]]

\* lines 548-564, for the lattice and the numbers of lines 532-537
CompOfLattice(a, lattice, num_transmitters, num_receivers, g, entropy) ==
    CompOfCells(lattice, num_transmitters, g,
                CellResults(a, lattice, num_transmitters, num_receivers, 1, g, entropy))

spin_encoded_comp(a, g, entropy) ==
    IF (a.modulation # "BPSK" /\ a.modulation # "QPSK")
       \/ a.transmitted_symbols # None
    THEN RaiseAt("ValueError", g)
    ELSE IF ~IsInf(a.SNRb) THEN RaiseAt("AttributeError", g)
    ELSE CompOfLattice(a,
             IF a.lattice[1] = "Graph" THEN a.lattice[2]
             ELSE _make_honeycomb(a.lattice[2]),
             IF a.num_transmitters = None THEN 1 ELSE a.num_transmitters[1],
             IF a.num_receivers = None THEN 1 ELSE a.num_receivers[1],
             g, entropy)

(***************************************************************************)
(* The state of the model.                                                  *)
(***************************************************************************)
\* np_random before the program has drawn from the process-wide generator: its
\* state, taken from the operating system, is not known
Unseeded == 0 - 1

\* the states a generator seeded by the operating system may start in
EntropyStates == {s \in RngStates : s <= MaxEntropy}

\* the states the process-wide generator may be in
GlobalStates == IF np_random = Unseeded THEN EntropyStates ELSE {np_random}

Init ==
    /\ op = "none"
    /\ args = <<>>
    /\ ret = Raise("none")
    /\ prev = NoCall
    /\ np_random = Unseeded

\* no call has been made yet: a behaviour is one call of a caller, followed by the
\* calls the caller chains to it
Idle == op = "none"

Call(o, a, r) ==
    /\ op' = o
    /\ args' = a
    /\ ret' = r

\* a call that leaves the process-wide generator in the state of its result when
\* it draws from it
CallDrawing(o, a, r, draws) ==
    /\ Call(o, a, r)
    /\ np_random' = IF draws THEN r.np_random ELSE np_random

(***************************************************************************)
(* The inputs of the codec.                                                 *)
(***************************************************************************)
\* the values a real component of a symbol of the constellation takes
SignedAmps(modulation) ==
    LET a == Amps(modulation).val
    IN  {s * a[i].re : s \in {-1, 1}, i \in 1..Len(a)}

\* the symbols of the constellation: real for BPSK
Constellation(modulation) ==
    IF modulation = "BPSK" THEN {Cx(r, 0) : r \in SignedAmps(modulation)}
    ELSE {Cx(r, i) : r \in SignedAmps(modulation), i \in SignedAmps(modulation)}

SymbolDtype(modulation) == IF modulation = "BPSK" THEN "float64" ELSE "complex128"

\* the vectors of n symbols of the constellation
ConstellationVectors(modulation, n) ==
    {Arr(SymbolDtype(modulation), v) : v \in [1..n -> Constellation(modulation)]}

\* the spin vectors of a given length
SpinVectors(n) == {Arr("int64", [i \in 1..n |-> Cx(s[i], 0)]) : s \in [1..n -> {-1, 1}]}

\* a vector of n spins all equal to one
OnesVector(n) == Arr("int64", [i \in 1..n |-> Cx(1, 0)])

\* lengths around the guard on the number of bit planes, for nt transmitters: the
\* last bit-plane count that passes it with a remainder, and the first that fails it
\* without and with a remainder (a vector of exactly NumAmpsLimit planes is decoded
\* with weights up to 2**63, past the integers of the model)
LongSpinLens(nt) ==
    {2 * nt * NumAmpsLimit + 1, 2 * nt * (NumAmpsLimit + 1), 2 * nt * (NumAmpsLimit + 1) + 1}

(***************************************************************************)
(* The calls of the codec.                                                  *)
(***************************************************************************)
\* a caller encodes a vector of symbols of some constellation, which may be
\* another one than that of the modulation
SymbolsToSpins ==
    /\ Idle
    /\ \E modulation \in Modulations \cup OtherModulations, of \in Modulations,
       n \in 1..MaxSymbols :
        \E symbols \in ConstellationVectors(of, n) :
            /\ Call("symbols_to_spins",
                    [symbols |-> symbols, modulation |-> modulation],
                    symbols_to_spins(symbols, modulation))
            /\ prev' = NoCall
            /\ UNCHANGED np_random

\* a caller decodes some vector of spins, with or without num_transmitters
SpinsToSymbols ==
    /\ Idle
    /\ \E modulation \in Modulations \cup OtherModulations,
       num_transmitters \in {None} \cup {Some(n) : n \in 1..MaxSymbols} :
        \E spins \in UNION {SpinVectors(n) : n \in 0..MaxSpinLen}
                     \cup {OnesVector(n) : n \in UNION {LongSpinLens(nt) : nt \in 1..MaxSymbols}} :
            /\ Call("spins_to_symbols",
                    [spins |-> spins, modulation |-> modulation,
                     num_transmitters |-> num_transmitters],
                    spins_to_symbols(spins, modulation, num_transmitters))
            /\ prev' = NoCall
            /\ UNCHANGED np_random

\* a caller decodes what symbols_to_spins has just returned:
\* spins_to_symbols(symbols_to_spins(v, m), m, len(v))
DecodeEncoded ==
    /\ op = "symbols_to_spins"
    /\ ret.err = "none"
    /\ Call("spins_to_symbols",
            [spins |-> ret.val, modulation |-> args.modulation,
             num_transmitters |-> Some(Len(args.symbols.val))],
            spins_to_symbols(ret.val, args.modulation, Some(Len(args.symbols.val))))
    /\ prev' = [op |-> op, args |-> args, ret |-> ret]
    /\ UNCHANGED np_random

NextCodec == SymbolsToSpins \/ SpinsToSymbols \/ DecodeEncoded

SpecCodec == Init /\ [][NextCodec]_vars

(***************************************************************************)
(* The calls of spin_encoded_mimo.                                          *)
(***************************************************************************)
MimoArgs(modulation, y, F, transmitted_symbols, channel_noise, num_transmitters, num_receivers, SNRb, seed, F_distribution, use_offset) ==
    [modulation |-> modulation, y |-> y, F |-> F,
     transmitted_symbols |-> transmitted_symbols, channel_noise |-> channel_noise,
     num_transmitters |-> num_transmitters, num_receivers |-> num_receivers,
     SNRb |-> SNRb, seed |-> seed, F_distribution |-> F_distribution,
     use_offset |-> use_offset]

\* the four distributions of the documentation
Distributions ==
    {<<"Normal", "Real">>, <<"Normal", "Complex">>, <<"Binary", "Real">>,
     <<"Binary", "Complex">>}

\* a tuple that is too short, and a distribution create_channel does not know
BadDistributions == {<<"Normal">>, <<"Uniform", "Real">>}

Seeds == {None} \cup {Some(k) : k \in 0..MaxSeed}

\* the channels a caller makes with create_channel and its own RandomState
SuppliedChannels(num_receivers, num_transmitters) ==
    {create_channel(num_receivers, num_transmitters, d, s).val.F :
        d \in Distributions, s \in EntropyStates}

\* the channel power of a call that generates its channel
GeneratedPower(num_transmitters, F_distribution) ==
    LET ch == create_channel(1, num_transmitters, F_distribution, 0)
    IN  IF ch.err = "none" THEN ch.val.channel_power ELSE num_transmitters

\* the values of SNRb given to a call: none (float('Inf')), one that makes sigma 1,
\* and zero
SNRbs(channel_power, modulation) ==
    {Inf, SNRbOfSigma(1, channel_power, modulation), [num |-> 0, den |-> 1]}

\* the numbers of transmitters for which the caller gives the transmitted symbols
SuppliedTx(m) == {nt \in 1..MaxTx : nt * bits_per_transmitter(m) <= MaxSpins}

\* the signals a caller gives: real ones, a complex one, and one that is too long
SuppliedSignals(num_receivers) ==
    {Arr("float64", [i \in 1..num_receivers |-> Cx(r, 0)]) : r \in {0, 1}}
    \cup {Arr("complex128", [i \in 1..num_receivers |-> Cx(1, -1)]),
          Arr("float64", [i \in 1..(num_receivers + 1) |-> Cx(1, 0)])}

\* the call draws transmitted symbols from the process-wide generator
DrawsSymbols(a) == a.y = None /\ a.transmitted_symbols = None

\* the call makes a RandomState without a seed: for the channel, or in create_signal
\* before it draws the symbols or the noise
UsesEntropy(a) ==
    /\ a.seed = None
    /\ \/ a.F = None
       \/ a.y = None /\ a.transmitted_symbols = None
       \/ a.y = None /\ a.channel_noise = None /\ ~IsInf(a.SNRb)

\* a call of spin_encoded_mimo with the arguments a
MimoCall(a) ==
    \E g \in IF DrawsSymbols(a) THEN GlobalStates ELSE {0},
       entropy \in IF UsesEntropy(a) THEN EntropyStates ELSE {0} :
        CallDrawing("spin_encoded_mimo", a, spin_encoded_mimo(a, g, entropy),
                    DrawsSymbols(a))

\* everything is generated: F, y and transmitted_symbols are absent
GeneratedCall ==
    \E m \in Modulations \cup OtherModulations, nt \in 1..MaxTx, nr \in 1..MaxRx,
       d \in {None} \cup Distributions \cup BadDistributions, seed \in Seeds,
       off \in BOOLEAN :
        \E snr \in SNRbs(GeneratedPower(nt, d), m) :
            MimoCall(MimoArgs(m, None, None, None, None, Some(nt), Some(nr), snr,
                              seed, d, off))

\* the signal is exact: F and transmitted_symbols are given, no noise is asked for
ExactCall ==
    \E m \in Modulations, nr \in 1..MaxRx, off \in BOOLEAN :
        \E nt \in SuppliedTx(m) :
            \E F \in SuppliedChannels(nr, nt), v \in ConstellationVectors(m, nt) :
                MimoCall(MimoArgs(m, None, Some(F), Some(v), None, None, None, Inf,
                                  None, None, off))

\* y and F are given
SignalCall ==
    \E m \in Modulations \cup OtherModulations, nt \in 1..MaxTx, nr \in 1..MaxRx,
       off \in BOOLEAN :
        \E F \in SuppliedChannels(nr, nt), y \in SuppliedSignals(nr) :
            MimoCall(MimoArgs(m, Some(y), Some(F), None, None, None, None, Inf,
                              None, None, off))

\* F is given and the signal is noisy: the noise is drawn, or given
NoisyCall ==
    \E m \in {"BPSK", "QPSK"}, nr \in 1..MaxRx, seed \in Seeds :
        \E F \in SuppliedChannels(nr, 1),
           v \in {None} \cup {Some(w) : w \in ConstellationVectors(m, 1)},
           n \in {None, Some(Arr("float64", [i \in 1..nr |-> Cx(1, 0)]))} :
            MimoCall(MimoArgs(m, None, Some(F), v, n, None, None,
                              SNRbOfSigma(1, 1, m), seed, None, TRUE))

\* nothing tells the number of transmitters, or of receivers
UnderspecifiedCall ==
    \E m \in Modulations, nt \in {None, Some(1)} :
        MimoCall(MimoArgs(m, None, None, None, None, nt, None, Inf, None, None, FALSE))

SpinEncodedMimo ==
    /\ Idle
    /\ prev' = NoCall
    /\ \/ GeneratedCall
       \/ ExactCall
       \/ SignalCall
       \/ NoisyCall
       \/ UnderspecifiedCall

\* the caller repeats the call it has just made, with identical arguments
SpinEncodedMimoAgain ==
    /\ op = "spin_encoded_mimo"
    /\ prev = NoCall
    /\ args.F = None /\ args.y = None /\ args.transmitted_symbols = None
    /\ MimoCall(args)
    /\ prev' = [op |-> op, args |-> args, ret |-> ret]

\* a call of create_signal itself for the channel F: the symbols and the noise are
\* given or absent, SNRb is the default float('Inf') or finite
SignalOf(F, m, rs) ==
    \E v \in {None} \cup {Some(w) : w \in ConstellationVectors(m, NumCols(F))},
       n \in {None, Some(Arr("float64", [i \in 1..NumRows(F) |-> Cx(1, 0)])),
              Some(Arr("complex128", [i \in 1..NumRows(F) |-> Cx(1, -1)]))},
       snr \in {Inf, SNRbOfSigma(1, NumCols(F), m)} :
        \E g \in IF v = None THEN GlobalStates ELSE {0},
           entropy \in IF rs = None /\ (v = None \/ n = None) THEN EntropyStates
                       ELSE {0} :
            CallDrawing("create_signal",
                        [F |-> F, transmitted_symbols |-> v, channel_noise |-> n,
                         SNRb |-> snr, modulation |-> m, channel_power |-> None,
                         random_state |-> rs],
                        create_signal(F, v, n, snr, m, None, rs, g, entropy),
                        v = None)

CreateSignal ==
    /\ Idle
    /\ prev' = NoCall
    /\ \E m \in {"BPSK", "QPSK"}, nr \in 1..MaxRx, nt \in 1..MaxTx,
          rs \in {None, RandomState(1)} :
        \E F \in SuppliedChannels(nr, nt) : SignalOf(F, m, rs)

\* the caller builds the model of the y and F of the call it has just made once
\* more, with the other setting of use_offset
SpinEncodedMimoOtherOffset ==
    /\ op = "spin_encoded_mimo"
    /\ prev = NoCall
    /\ args.F # None /\ args.y # None
    /\ ret.err = "none"
    /\ NumVariables(ret.val) <= MaxSpins
    /\ MimoCall([args EXCEPT !.use_offset = ~@])
    /\ prev' = [op |-> op, args |-> args, ret |-> ret]

NextMimo ==
    SpinEncodedMimo \/ SpinEncodedMimoAgain \/ SpinEncodedMimoOtherOffset
    \/ CreateSignal

SpecMimo == Init /\ [][NextMimo]_vars

(***************************************************************************)
(* The calls of _real_quadratic_form.                                       *)
(***************************************************************************)
\* the entries of the vectors the forms are made of
FormEntries == {Cx(a, b) : a \in {1, 2}, b \in {-1, 1}}

\* an array seen with a real dtype keeps its real parts only
AsDtype(d, z) == IF d = "complex128" THEN z ELSE Cx(z.re, 0)

\* the form (h, J) with h = u and J the matrix of the u[i]*conj(w[j]): J is not
\* hermitian, its imaginary part is not symmetric
FormOf(u, w, hd, Jd) ==
    [h |-> Arr(hd, [i \in 1..Len(u) |-> AsDtype(hd, u[i])]),
     J |-> Arr(Jd, [i \in 1..Len(u) |-> [j \in 1..Len(w) |->
                AsDtype(Jd, CMul(u[i], CConj(w[j])))]])]

RealQuadraticForm ==
    /\ Idle
    /\ \E n \in 1..MaxFormDim, modulation \in Modulations,
          hd \in {"float64", "complex128"}, Jd \in {"float64", "complex128"} :
        \E u \in [1..n -> FormEntries], w \in [1..n -> FormEntries] :
            LET f == FormOf(u, w, hd, Jd) IN
            /\ Call("_real_quadratic_form",
                    [h |-> f.h, J |-> f.J, modulation |-> modulation],
                    Ok(_real_quadratic_form(f.h, f.J, modulation)))
    /\ prev' = NoCall
    /\ UNCHANGED np_random

NextForm == RealQuadraticForm

SpecForm == Init /\ [][NextForm]_vars

(***************************************************************************)
(* The calls of spin_encoded_comp.                                          *)
(***************************************************************************)
CompArgs(lattice, modulation, transmitted_symbols, num_transmitters, num_receivers, SNRb, seed, F_distribution, use_offset) ==
    [lattice |-> lattice, modulation |-> modulation, ys |-> None, Fs |-> None,
     transmitted_symbols |-> transmitted_symbols, channel_noise |-> None,
     num_transmitters |-> num_transmitters, num_receivers |-> num_receivers,
     SNRb |-> SNRb, seed |-> seed, F_distribution |-> F_distribution,
     use_offset |-> use_offset]

\* the basestation k of a graph the caller gives
Station(k) == <<k, 0>>

\* nx.path_graph(n), over the stations 0..n-1
PathGraph(n) ==
    add_edges_from(add_node(EmptyGraph, Station(0)),
                   [k \in 1..(n - 1) |-> <<Station(k - 1), Station(k)>>])

\* nx.cycle_graph(n)
CycleGraph(n) == add_edge(PathGraph(n), <<Station(n - 1), Station(0)>>)

\* the graphs a caller gives
SuppliedGraphs ==
    {PathGraph(n) : n \in 1..MaxNodes} \cup {CycleGraph(n) : n \in 3..MaxNodes}

\* a call of spin_encoded_comp with the arguments a, on a lattice of n nodes
CompCall(a, n) ==
    \E g \in GlobalStates,
       entropy \in IF a.seed = None THEN [1..n -> EntropyStates] ELSE {[k \in 1..n |-> 0]} :
        CallDrawing("spin_encoded_comp", a, spin_encoded_comp(a, g, entropy), TRUE)

\* the lattice is a graph of the caller
GraphCall ==
    \E G \in SuppliedGraphs, m \in {"BPSK", "QPSK"},
       nt \in {None} \cup {Some(k) : k \in 1..MaxTx},
       nr \in {None, Some(MaxRx)}, seed \in Seeds,
       d \in {None, <<"Binary", "Real">>, <<"Normal", "Real">>}, off \in BOOLEAN :
        /\ seed = None => Len(G.nodes) <= 2
        /\ CompCall(CompArgs(GraphLattice(G), m, None, nt, nr, Inf, seed, d, off),
                    Len(G.nodes))

\* the lattice is the honeycomb of linear scale L
HoneycombCall ==
    \E L \in 1..MaxL, m \in {"BPSK", "QPSK"}, seed \in Seeds \ {None},
       nr \in {None, Some(MaxRx)}, off \in BOOLEAN :
        CompCall(CompArgs(IntLattice(L), m, None, None, nr, Inf, seed, None, off),
                 3 * L * L + 3 * L + 1)

\* what spin_encoded_comp does not support: other modulations, transmitted symbols
\* of the caller, a finite SNRb
UnsupportedCall ==
    \E m \in Modulations \cup OtherModulations, ts \in {None, Some(OnesVector(1))},
       snr \in {Inf, SNRbOfSigma(1, 1, "BPSK")} :
        /\ m \notin {"BPSK", "QPSK"} \/ ts # None \/ ~IsInf(snr)
        /\ CompCall(CompArgs(GraphLattice(PathGraph(2)), m, ts, None, None, snr,
                             Some(0), None, FALSE), 2)

SpinEncodedComp ==
    /\ Idle
    /\ prev' = NoCall
    /\ \/ GraphCall
       \/ HoneycombCall
       \/ UnsupportedCall

\* a call of _make_honeycomb itself
MakeHoneycomb ==
    /\ Idle
    /\ \E L \in 1..MaxScale :
        Call("_make_honeycomb", [L |-> L], Ok(_make_honeycomb(L)))
    /\ prev' = NoCall
    /\ UNCHANGED np_random

NextComp == SpinEncodedComp \/ MakeHoneycomb

SpecComp == Init /\ [][NextComp]_vars

(***************************************************************************)
(* Properties of the codec (SpecCodec).                                     *)
(***************************************************************************)
\* every symbol of the vector is a symbol of the constellation of the modulation
IsValid(symbols, modulation) ==
    \A i \in 1..Len(symbols.val) : symbols.val[i] \in Constellation(modulation)

\* the last call decoded the spins that symbols_to_spins returned for a valid vector
RoundTripDone ==
    /\ op = "spins_to_symbols"
    /\ prev.op = "symbols_to_spins"
    /\ prev.args.modulation \in Modulations
    /\ IsValid(prev.args.symbols, prev.args.modulation)

\* C1: round-trip law. For every modulation of BPSK, QPSK, 16QAM and 64QAM and every
\* vector v of n >= 1 symbols of its constellation,
\* spins_to_symbols(symbols_to_spins(v, m), m, n) returns without error a vector of n
\* values, the values of v element by element.
C1_RoundTrip ==
    RoundTripDone =>
        /\ prev.ret.err = "none"
        /\ ret.err = "none"
        /\ Len(ret.val.val) = Len(prev.args.symbols.val)
        /\ \A i \in 1..Len(prev.args.symbols.val) : ret.val.val[i] = prev.args.symbols.val[i]

\* a 64QAM vector of two symbols with distinct real and imaginary parts has made the
\* round trip
C1_Witness ==
    /\ RoundTripDone
    /\ prev.args.modulation = "64QAM"
    /\ prev.args.symbols.val = <<Cx(-5, 3), Cx(7, -1)>>
    /\ ret.err = "none"

\* spins_to_symbols was called with an explicit num_transmitters
ExplicitDecode == op = "spins_to_symbols" /\ args.num_transmitters # None

\* the number of bit planes implied by the spin count and num_transmitters
ImpliedAmps == Len(args.spins.val) \div (2 * args.num_transmitters[1])

Indivisible == Len(args.spins.val) % (2 * args.num_transmitters[1]) # 0

\* C6 as stated: spins_to_symbols fails for every spin vector and explicit
\* num_transmitters >= 1 whose spin count is not divisible by 2*num_transmitters, and
\* when the implied bit-plane count exceeds 64.
C6_ErrorWheneverIndivisible ==
    ExplicitDecode /\ (Indivisible \/ ImpliedAmps > NumAmpsLimit) => ret.err # "none"

\* C6 as amended: spins_to_symbols fails with ValueError for every spin vector and
\* explicit num_transmitters >= 1 whose spin count differs from num_transmitters and
\* is not divisible by 2*num_transmitters, and when the implied bit-plane count
\* exceeds 64; when the spin count equals num_transmitters it returns the spins
\* themselves.
C6_ErrorUnlessRealEncoding ==
    ExplicitDecode =>
        /\ Len(args.spins.val) # args.num_transmitters[1]
             /\ (Indivisible \/ ImpliedAmps > NumAmpsLimit)
           => ret.err = "ValueError" /\ ret.val = <<>>
        /\ Len(args.spins.val) = args.num_transmitters[1]
           => ret.err = "none" /\ ret.val = args.spins

\* spins_to_symbols was given 3 spins for 2 transmitters, a count that 2*2 does not
\* divide, and raised ValueError
C6_Witness ==
    /\ ExplicitDecode
    /\ args.num_transmitters = Some(2)
    /\ Len(args.spins.val) = 3
    /\ Indivisible
    /\ ret.err = "ValueError"
    /\ ret.val = <<>>

\* symbols_to_spins returned the spins of a valid 16QAM or 64QAM vector
AmplitudeEncoded ==
    /\ op = "symbols_to_spins"
    /\ args.modulation \in {"16QAM", "64QAM"}
    /\ IsValid(args.symbols, args.modulation)
    /\ ret.err = "none"

\* the value the spins give to real dimension col (1..2n: the real parts, then the
\* imaginary parts) when the plane of index p (from 1, in output order) weighs w[p]
SpinValue(spins, n, k, col, w) ==
    CSum([p \in 1..k |-> CScale(w[p], spins.val[(p - 1) * 2 * n + col])]).re

\* the output is made of k groups of 2n spins, real parts then imaginary parts, and
\* the symbols are recovered when the group of index p weighs w[p]
GroupedWithWeights(w) ==
    LET n == Len(args.symbols.val)
        k == spins_per_real_symbol(args.modulation)
    IN  /\ Len(ret.val.val) = 2 * n * k
        /\ \A i \in 1..Len(ret.val.val) : ret.val.val[i] \in {Cx(-1, 0), Cx(1, 0)}
        /\ \A i \in 1..n :
            /\ SpinValue(ret.val, n, k, i, w) = args.symbols.val[i].re
            /\ SpinValue(ret.val, n, k, n + i, w) = args.symbols.val[i].im

\* C9 as stated: the groups are emitted most-significant bit plane first; the first
\* 2n spins carry weight 2 for 16QAM (4 for 64QAM) and the last 2n carry weight 1.
C9_MostSignificantFirst ==
    AmplitudeEncoded =>
        GroupedWithWeights([p \in 1..3 |->
            Pow2(spins_per_real_symbol(args.modulation) - p)])

\* C9 as amended: the output groups the spins of one significance together (real
\* parts of all transmitters, then imaginary parts), and the groups are emitted
\* least-significant bit plane first: the first 2n spins carry weight 1 and the last
\* 2n carry weight 2 for 16QAM (4 for 64QAM).
C9_LeastSignificantFirst ==
    AmplitudeEncoded => GroupedWithWeights([p \in 1..3 |-> Pow2(p - 1)])

\* a 64QAM symbol whose planes differ has been encoded: 3 = 1 - 2 + 4 and
\* -5 = 1 - 2 - 4, the plane of weight 1 first
C9_Witness ==
    /\ AmplitudeEncoded
    /\ args.modulation = "64QAM"
    /\ args.symbols.val = <<Cx(3, -5)>>
    /\ ret.val.val = <<Cx(1, 0), Cx(1, 0), Cx(-1, 0), Cx(-1, 0), Cx(1, 0), Cx(-1, 0)>>

(***************************************************************************)
(* Properties of spin_encoded_mimo (SpecMimo).                              *)
(***************************************************************************)
MimoReturned == op = "spin_encoded_mimo" /\ ret.err = "none"

\* the spins of the transmitted symbols of the call, as integers
TransmittedSpins ==
    LET enc == symbols_to_spins(ret.locals.transmitted_symbols[1], args.modulation).val
    IN  [i \in 1..Len(enc.val) |-> enc.val[i].re]

\* a model was returned with its offset for a signal that is exactly F.v, v a vector
\* of the constellation and F integer-valued
ExactSignal ==
    /\ MimoReturned
    /\ args.use_offset
    /\ args.modulation \in Modulations
    /\ ret.locals.transmitted_symbols # None
    /\ IsValid(ret.locals.transmitted_symbols[1], args.modulation)
    /\ ret.locals.y.val = MatVec(ret.locals.F, ret.locals.transmitted_symbols[1]).val

\* C2: zero energy at the transmitted symbols. For every modulation of BPSK, QPSK,
\* 16QAM and 64QAM, every integer-valued channel F and every vector v of the
\* constellation, when y = F.v exactly the model returned with use_offset=True has
\* as many variables as symbols_to_spins(v, modulation) has spins, and its energy
\* sum_i h_i s_i + sum_{i,j} J_ij s_i s_j + offset at those spins is 0.
C2_ZeroEnergyAtTransmitted ==
    ExactSignal =>
        /\ NumVariables(ret.val) = Len(TransmittedSpins)
        /\ Energy(ret.val, TransmittedSpins) = 0

\* the case has happened for two 16QAM transmitters and a complex channel whose
\* coupling matrix has an imaginary part
C2_Witness ==
    /\ ExactSignal
    /\ args.modulation = "16QAM"
    /\ args.F # None
    /\ ret.locals.num_transmitters = 2
    /\ ret.locals.F.dtype = "complex128"
    /\ Gram(ret.locals.F).val[1][2].im # 0
    /\ ret.locals.transmitted_symbols[1].val = <<Cx(3, -1), Cx(-3, 1)>>
    /\ ret.val.offset > 0

\* the call repeats the call before it: identical arguments, an integer seed, and F,
\* y and transmitted_symbols absent
RepeatedWithSeed ==
    /\ op = "spin_encoded_mimo"
    /\ prev.op = "spin_encoded_mimo"
    /\ args = prev.args
    /\ args.seed # None
    /\ args.F = None /\ args.y = None /\ args.transmitted_symbols = None

\* C4: reproducibility. Two calls of spin_encoded_mimo with identical arguments, F, y
\* and transmitted_symbols absent, and the same integer seed return identical models
\* (or fail alike).
C4_SameSeedSameModel ==
    RepeatedWithSeed => ret.err = prev.ret.err /\ ret.val = prev.ret.val

\* the number of spins that stand for one transmitter: one for each real dimension
\* and bit plane
SpinsPerTransmitter(modulation) ==
    IF modulation = "BPSK" THEN 1
    ELSE IF modulation = "QPSK" THEN 2
    ELSE IF modulation = "16QAM" THEN 4
    ELSE 6

\* C5: variable count of a single-cell model. The model returned by spin_encoded_mimo
\* has exactly n spin variables for BPSK, 2n for QPSK, 4n for 16QAM and 6n for 64QAM,
\* n being num_transmitters, whatever the domain of the channel and use_offset.
C5_VariableCount ==
    MimoReturned =>
        NumVariables(ret.val)
            = ret.locals.num_transmitters * SpinsPerTransmitter(args.modulation)

\* a matrix array is real-valued: of a real dtype, every imaginary part zero
IsRealMatrix(M) ==
    /\ M.dtype # "complex128"
    /\ \A i \in 1..NumRows(M) : \A j \in 1..NumCols(M) : M.val[i][j].im = 0

\* C7: default channel domain. When spin_encoded_mimo is called with F absent and
\* F_distribution absent, the generated channel is real-valued with channel_power
\* num_transmitters for BPSK, and complex with channel_power 2*num_transmitters for
\* every other modulation.
C7_DefaultChannelDomain ==
    MimoReturned /\ args.F = None /\ args.F_distribution = None =>
        IF args.modulation = "BPSK"
        THEN /\ IsRealMatrix(ret.locals.F)
             /\ ret.locals.channel_power = ret.locals.num_transmitters
        ELSE /\ ret.locals.F.dtype = "complex128"
             /\ ret.locals.channel_power = 2 * ret.locals.num_transmitters

\* the values the claim gives to a real component of a generated symbol
ClaimedOutcomes(modulation) ==
    IF modulation = "16QAM" THEN {-3, -1, 1, 3}
    ELSE IF modulation = "64QAM" THEN {-7, -5, -3, -1, 1, 3, 5, 7}
    ELSE {-1, 1}

\* the values np.random.choice(amps, ...) draws from in the call
DrawnFrom == {ret.locals.amps.val[i].re : i \in 1..Len(ret.locals.amps.val)}

\* C10: generated transmitted symbols. When spin_encoded_mimo is called without
\* transmitted_symbols, each real component of each symbol is drawn from the signed
\* amplitude set of the modulation: every value of {-3,-1,1,3} for 16QAM, every odd
\* value of [-7,7] for 64QAM, is among the values the draw is made from.
C10_DrawnFromSignedAmplitudes ==
    MimoReturned /\ ret.locals.drawn /\ args.modulation \in {"16QAM", "64QAM"} =>
        ClaimedOutcomes(args.modulation) \subseteq DrawnFrom

\* create_signal returned for symbols and a noise the caller gave
SignalOfSupplied ==
    /\ op = "create_signal"
    /\ ret.err = "none"
    /\ args.transmitted_symbols # None
    /\ args.channel_noise # None

\* F.v + n for the arguments of the call
ChannelPlusNoise ==
    VecAdd(args.channel_noise[1], MatVec(args.F, args.transmitted_symbols[1]))

\* C12: supplied noise is used. For every F, every transmitted-symbol vector v and
\* every channel_noise n the caller gives, and for every admissible SNRb (finite and
\* positive, or the default infinity), the signal y returned by create_signal is
\* F.v + n, and the returned channel_noise is n.
C12_SuppliedNoiseUsed ==
    SignalOfSupplied =>
        /\ ret.val.y.val = ChannelPlusNoise.val
        /\ ret.val.channel_noise = args.channel_noise
        /\ ret.val.transmitted_symbols = args.transmitted_symbols[1]

\* what create_signal does: the noise enters y for a finite SNRb only
NoiseUsedWhenFinite ==
    SignalOfSupplied =>
        ret.val.y.val = IF IsInf(args.SNRb)
                        THEN MatVec(args.F, args.transmitted_symbols[1]).val
                        ELSE ChannelPlusNoise.val

\* two models were returned for the same modulation, y and F, one with and one
\* without the offset
OffsetPair ==
    /\ op = "spin_encoded_mimo" /\ prev.op = "spin_encoded_mimo"
    /\ ret.err = "none" /\ prev.ret.err = "none"
    /\ args.modulation = prev.args.modulation
    /\ ret.locals.y = prev.ret.locals.y
    /\ ret.locals.F = prev.ret.locals.F
    /\ args.use_offset # prev.args.use_offset

WithOffset == IF args.use_offset THEN ret.val ELSE prev.ret.val

WithoutOffset == IF args.use_offset THEN prev.ret.val ELSE ret.val

\* the trace of the coupling matrix of a model
Trace(bqm) == SeqSum([i \in 1..NumVariables(bqm) |-> bqm.quadratic[i][i]])

SpinAssignments(n) == [1..n -> {-1, 1}]

Energies(bqm) == {Energy(bqm, s) : s \in SpinAssignments(NumVariables(bqm))}

LeastOf(es) == CHOOSE e \in es : \A f \in es : e <= f

\* the spin assignments of energy e
AssignmentsAt(bqm, e) == {s \in SpinAssignments(NumVariables(bqm)) : Energy(bqm, s) = e}

\* the spin assignments of least energy
Minimisers(bqm) == AssignmentsAt(bqm, LeastOf(Energies(bqm)))

\* C14: use_offset only shifts the energy. For the same modulation, y and F, the
\* models returned with use_offset=True and with use_offset=False have the same
\* variables and give every spin assignment energies that differ by one constant,
\* the offset y^H y plus the trace of the expanded coupling matrix, so that both
\* have the same minimising assignments; the use_offset=False model has offset 0.
C14_OffsetOnlyShifts ==
    OffsetPair =>
        /\ WithoutOffset.offset = 0
        /\ WithOffset.offset = QuadraticOffset(ret.locals.y)
        /\ NumVariables(WithOffset) = NumVariables(WithoutOffset)
        /\ \A s \in SpinAssignments(NumVariables(WithOffset)) :
            Energy(WithOffset, s) - Energy(WithoutOffset, s)
                = WithOffset.offset + Trace(WithOffset)
        /\ Minimisers(WithOffset) = Minimisers(WithoutOffset)

\* the two models differ: the signal is not zero, the coupling matrix has a diagonal
\* that is not zero and entries beside it, and not every assignment is a minimiser
C14_Witness ==
    /\ OffsetPair
    /\ WithOffset.offset > 0
    /\ Trace(WithOffset) > 0
    /\ NumVariables(WithOffset) >= 2
    /\ \E i, j \in 1..NumVariables(WithOffset) :
        i < j /\ WithoutOffset.quadratic[i][j] # 0
    /\ Minimisers(WithOffset) # SpinAssignments(NumVariables(WithOffset))

(***************************************************************************)
(* Properties of _real_quadratic_form (SpecForm).                           *)
(***************************************************************************)
\* _real_quadratic_form was given a complex (h, J) and a modulation other than BPSK
ComplexProjected ==
    /\ op = "_real_quadratic_form"
    /\ args.modulation # "BPSK"
    /\ args.h.dtype = "complex128" \/ args.J.dtype = "complex128"

\* hR = [Re(h); Im(h)]
StackedLayout ==
    LET n == Len(args.h.val)
    IN  /\ Len(ret.val.h.val) = 2 * n
        /\ \A i \in 1..n :
            /\ ret.val.h.val[i] = Cx(args.h.val[i].re, 0)
            /\ ret.val.h.val[n + i] = Cx(args.h.val[i].im, 0)

\* JR is 2n x 2n, its top-left and bottom-right blocks are Re(J)
DiagonalBlocks ==
    LET n == Len(args.J.val)
    IN  /\ Len(ret.val.J.val) = 2 * n
        /\ \A i \in 1..(2 * n) : Len(ret.val.J.val[i]) = 2 * n
        /\ \A i \in 1..n : \A j \in 1..n :
            /\ ret.val.J.val[i][j] = Cx(args.J.val[i][j].re, 0)
            /\ ret.val.J.val[n + i][n + j] = Cx(args.J.val[i][j].re, 0)

\* C8 as stated: hR = [Re(h); Im(h)] and JR is the 2n x 2n block matrix whose
\* top-left and bottom-right blocks are Re(J), whose top-right block is Im(J) and
\* whose bottom-left block is the transpose of Im(J).
C8_ImagTopRight ==
    ComplexProjected =>
        /\ StackedLayout
        /\ DiagonalBlocks
        /\ LET n == Len(args.J.val)
           IN  \A i \in 1..n : \A j \in 1..n :
                /\ ret.val.J.val[i][n + j] = Cx(args.J.val[i][j].im, 0)
                /\ ret.val.J.val[n + i][j] = Cx(args.J.val[j][i].im, 0)

\* C8 as amended: hR = [Re(h); Im(h)] and JR is the 2n x 2n block matrix whose
\* top-left and bottom-right blocks are Re(J), whose top-right block is the transpose
\* of Im(J) and whose bottom-left block is Im(J).
C8_ImagBottomLeft ==
    ComplexProjected =>
        /\ StackedLayout
        /\ DiagonalBlocks
        /\ LET n == Len(args.J.val)
           IN  \A i \in 1..n : \A j \in 1..n :
                /\ ret.val.J.val[i][n + j] = Cx(args.J.val[j][i].im, 0)
                /\ ret.val.J.val[n + i][j] = Cx(args.J.val[i][j].im, 0)

\* a complex 2 x 2 J whose imaginary part is not symmetric has been projected
C8_Witness ==
    /\ ComplexProjected
    /\ args.J.dtype = "complex128"
    /\ Len(args.J.val) = 2
    /\ args.J.val[1][2].im # args.J.val[2][1].im
    /\ ret.val.J.val[3][2] = Cx(args.J.val[1][2].im, 0)

(***************************************************************************)
(* Properties of spin_encoded_comp (SpecComp).                              *)
(***************************************************************************)
CompReturned == op = "spin_encoded_comp" /\ ret.err = "none"

\* the global identifiers (basestation, i) of the own transmitters of the lattice
GlobalIdentifiers ==
    {<<bs, i>> : bs \in NodeSet(ret.locals.lattice),
                 i \in 0..(ret.locals.num_transmitters - 1)}

\* C3: the joint model returned by spin_encoded_comp, for BPSK and for QPSK, has as
\* many variables as the lattice has nodes times num_transmitters, and its
\* variables are the global identifiers (basestation, i), each once.
C3_JointVariableCount ==
    CompReturned =>
        /\ Cardinality(ret.val.variables)
             = Len(ret.locals.lattice.nodes) * ret.locals.num_transmitters
        /\ ret.val.variables = GlobalIdentifiers

\* the channel create_channel draws for the k-th node of the loop from the state s
CellChannelFrom(k, s) ==
    create_channel(ret.locals.cells[k].locals.num_receivers,
                   ret.locals.cells[k].locals.num_transmitters,
                   args.F_distribution, s)

\* the state before the k-th node of a random source that is made of the seed once,
\* before the loop, and advanced by the draws of the nodes before the k-th
RECURSIVE SharedSourceBefore(_)
SharedSourceBefore(k) ==
    IF k = 1 THEN SeededState(args.seed[1])
    ELSE CellChannelFrom(k - 1, SharedSourceBefore(k - 1)).val.random_state

\* a model was returned for a seed the caller gave
SeededCompReturned == CompReturned /\ args.seed # None

\* C11: random-source advancement in spin_encoded_comp. With a given seed, the cells
\* are generated from one shared random source whose state advances from node to
\* node: the source of the k-th node starts in the state left by the draws of the
\* node before it, and is not re-initialised from the seed for each node.
C11_SharedSourceAdvances ==
    SeededCompReturned =>
        \A k \in 1..Len(ret.locals.cells) :
            ret.locals.cells[k].locals.F
                = CellChannelFrom(k, SharedSourceBefore(k)).val.F

\* what the loop does: every node draws its channel from RandomState(seed) anew
CellsReseeded ==
    SeededCompReturned =>
        \A k \in 1..Len(ret.locals.cells) :
            ret.locals.cells[k].locals.F
                = CellChannelFrom(k, SeededState(args.seed[1])).val.F

\* the k-th node of the loop
NodeAt(k) == ret.locals.lattice.nodes[k]

\* the local transmitter set of the cell of the k-th node holds the transmitters of
\* the basestation b: b is the node, or one of its neighbours
InCell(k, b) == b = NodeAt(k) \/ Contains(neighbors(ret.locals.lattice, NodeAt(k)), b)

\* the place of b among the basestations of the cell of the k-th node: 0 for the
\* node itself, q for its q-th neighbour
PlaceInCell(k, b) ==
    IF b = NodeAt(k) THEN 0
    ELSE CHOOSE q \in 1..degree(ret.locals.lattice, NodeAt(k)) :
             neighbors(ret.locals.lattice, NodeAt(k))[q] = b

\* the local index, counted from 1, that stands in the cell of the k-th node for
\* the global identifier id = (b, i)
LocalIndex(k, id) == PlaceInCell(k, id[1]) * ret.locals.num_transmitters + id[2] + 1

\* what the sub-model of the k-th cell adds to the linear bias of id, and to the
\* quadratic bias between id and jd
LinearFrom(k, id) ==
    IF InCell(k, id[1]) THEN ret.locals.cells[k].val.linear[LocalIndex(k, id)] ELSE 0

QuadraticFrom(k, id, jd) ==
    IF InCell(k, id[1]) /\ InCell(k, jd[1])
    THEN ret.locals.cells[k].val.quadratic[LocalIndex(k, id)][LocalIndex(k, jd)]
    ELSE 0

\* spin_encoded_comp returned for BPSK on a lattice with an edge
SummedCells ==
    /\ CompReturned
    /\ args.modulation = "BPSK"
    /\ \E n \in NodeSet(ret.locals.lattice) : degree(ret.locals.lattice, n) > 0

\* C13: coefficient summation in spin_encoded_comp (BPSK, a lattice with an edge).
\* The linear bias of every global identifier (b, i) in the joint model is the sum,
\* over the cell of b and the cells of the neighbours of b, of the linear bias the
\* sub-model of the cell gives to the local index that stands for transmitter i of
\* b; the quadratic bias between two identifiers is the sum over exactly the cells
\* whose local transmitter set holds both.
C13_CoefficientsSummed ==
    SummedCells =>
        /\ ret.val.variables = GlobalIdentifiers
        /\ \A id \in GlobalIdentifiers :
            ret.val.linear[id]
                = SeqSum([k \in 1..Len(ret.locals.cells) |-> LinearFrom(k, id)])
        /\ \A id \in GlobalIdentifiers, jd \in GlobalIdentifiers :
            ret.val.quadratic[<<id, jd>>]
                = SeqSum([k \in 1..Len(ret.locals.cells) |-> QuadraticFrom(k, id, jd)])

\* a bias of the joint model is the sum of what two cells add, neither of them zero,
\* for a linear and for a quadratic bias, and a third cell adds nothing
C13_Witness ==
    /\ SummedCells
    /\ \E id \in GlobalIdentifiers, k \in 1..Len(ret.locals.cells),
          l \in 1..Len(ret.locals.cells) :
        /\ k < l
        /\ LinearFrom(k, id) # 0 /\ LinearFrom(l, id) # 0
        /\ id[1] = NodeAt(l)
    /\ \E id \in GlobalIdentifiers, jd \in GlobalIdentifiers,
          k \in 1..Len(ret.locals.cells), l \in 1..Len(ret.locals.cells) :
        /\ id # jd /\ k # l
        /\ QuadraticFrom(k, id, jd) # 0 /\ QuadraticFrom(l, id, jd) # 0
    /\ \E id \in GlobalIdentifiers, k \in 1..Len(ret.locals.cells) :
        ~InCell(k, id[1])

(***************************************************************************)
(* Properties of _make_honeycomb (SpecComp).                                *)
(***************************************************************************)
\* the steps between the two ends of the edges _make_honeycomb adds
HoneycombSteps == {<<0, 1>>, <<1, 0>>, <<1, 1>>}

\* the step from the node n to the node m
StepBetween(n, m) == <<m[1] - n[1], m[2] - n[2]>>

\* the nodes of G are distinct, and m is a neighbour of n exactly when n is one of m
IsGraph(G) ==
    /\ Cardinality(NodeSet(G)) = Len(G.nodes)
    /\ \A n \in NodeSet(G) : \A k \in 1..Len(G.adj[n]) :
        /\ G.adj[n][k] \in NodeSet(G)
        /\ Contains(G.adj[G.adj[n][k]], n)

\* C15: _make_honeycomb(L) returns a graph of exactly 3L^2 + 3L + 1 nodes, nodes of
\* the (2L+1) x (2L+1) lattice, in which every node has degree at least 3 and at
\* most 6 and every edge joins (x, y) and (x', y') with (x'-x, y'-y) in
\* {(0,1), (1,0), (1,1)}.
C15_HoneycombShape ==
    op = "_make_honeycomb" =>
        /\ IsGraph(ret.val)
        /\ Len(ret.val.nodes) = 3 * args.L * args.L + 3 * args.L + 1
        /\ \A n \in NodeSet(ret.val) :
            /\ n[1] \in 0..(2 * args.L) /\ n[2] \in 0..(2 * args.L)
            /\ degree(ret.val, n) >= 3
            /\ degree(ret.val, n) <= 6
            /\ \A k \in 1..degree(ret.val, n) :
                \/ StepBetween(n, neighbors(ret.val, n)[k]) \in HoneycombSteps
                \/ StepBetween(neighbors(ret.val, n)[k], n) \in HoneycombSteps

\* the honeycomb of scale 2 has been made: 19 nodes, a corner of degree 3, the
\* centre of degree 6
C15_Witness ==
    /\ op = "_make_honeycomb"
    /\ args.L = 2
    /\ Len(ret.val.nodes) = 19
    /\ degree(ret.val, <<0, 0>>) = 3
    /\ degree(ret.val, <<2, 2>>) = 6
    /\ ~Contains(ret.val.nodes, <<3, 0>>)

============================================================================
